---------------------------- MODULE Spec2Model ----------------------------
(***************************************************************************)
(* Model of src/montecarlo.py: the classes Die, Game and Analyzer.         *)
(*                                                                         *)
(* Python objects that are shared by reference are modelled by identity:   *)
(* a Die is an index into dies, a pandas DataFrame of results is a         *)
(* reference into the heap frames.  An optional value (None or a value) is *)
(* a sequence of length 0 or 1.  Faces and weights are small integers.     *)
(***************************************************************************)
EXTENDS Integers, Sequences, FiniteSets, TLC

VARIABLES
    dies,       \* the Die objects constructed so far: <<[face, weight]>>
    game,       \* the Game object, if constructed: <<[dice, _results]>>
    frames,     \* heap of the results DataFrames: reference -> DataFrame
    analyzer,   \* the Analyzer object, if constructed: <<[results]>>
    num_rolls,  \* argument of the most recent play call that returned
    last        \* the most recent call: [op, args, err, ret]

vars == <<dies, game, frames, analyzer, num_rolls, last>>

---------------------------------------------------------------------------
(* Bounds of the model *)

MaxDies == 2        \* Die objects constructed
MaxGameDice == 2    \* length of the list given to Game
MaxRolls == 2       \* largest num_rolls given to play and roll
NumFaces == 2       \* distinct face values
MaxFaces == 2       \* length of the list given to Die
MaxWeight == 1      \* largest weight given to change_weight

Faces == 1..NumFaces
AbsentFace == NumFaces + 1
Weights == (0 - 1)..MaxWeight
RollCounts == (0 - 1)..MaxRolls

\* the weight every face gets from Die.__init__
DefaultWeight == 1

---------------------------------------------------------------------------
(* Outcomes of a call: no exception, or the exception raised *)

NoError == "ok"
FacesTypeError == "TypeError: Faces must be a list or numpy array."
FaceValueError == "ValueError: Face does not exist."
DiceTypeError == "TypeError: Dice must be a list of Die objects."
ElementTypeError == "TypeError: All elements in the list must be Die objects."
GameTypeError == "TypeError: Input must be an instance of the Game class."
NoResultsError == "ValueError: No results available. Please play the game first."
FormValueError == "ValueError: Invalid form option. Use 'wide' or 'narrow'."
ChoiceValueError == "ValueError: numpy.random.choice"

None == <<>>
Some(x) == <<x>>

Call(op, args, err, ret) == [op |-> op, args |-> args, err |-> err, ret |-> ret]

---------------------------------------------------------------------------
(* Helpers on sequences *)

Range(s) == {s[i] : i \in DOMAIN s}

SeqsUpTo(S, lo, hi) == UNION {[1..n -> S] : n \in lo..hi}

RECURSIVE SumSeq(_)
SumSeq(s) == IF s = <<>> THEN 0 ELSE Head(s) + SumSeq(Tail(s))

\* the distinct elements of s in the order of their first occurrence
RECURSIVE Distinct(_)
Distinct(s) ==
    IF s = <<>> THEN <<>>
    ELSE LET d == Distinct(SubSeq(s, 1, Len(s) - 1))
         IN  IF s[Len(s)] \in Range(d) THEN d ELSE Append(d, s[Len(s)])

---------------------------------------------------------------------------
(* class Die *)

\* pd.DataFrame({'face': faces, 'weight': 1.0})
NewDie(faces) ==
    [face |-> faces, weight |-> [i \in DOMAIN faces |-> DefaultWeight]]

\* Die.__init__: the only check is the type of the argument
DieInitError(arg) ==
    IF arg.type \notin {"list", "ndarray"} THEN FacesTypeError ELSE NoError

\* faulty variant: the weight is assigned to every row
ChangeWeightAllRows(die, face, new_weight) ==
    IF face \notin Range(die.face)
    THEN [die |-> die, err |-> FaceValueError]
    ELSE [die |-> [die EXCEPT !.weight = [i \in DOMAIN die.weight |-> new_weight]],
          err |-> NoError]

\* Die.change_weight on the table of one die
ChangeWeight(die, face, new_weight) ==
    IF face \notin Range(die.face)
    THEN [die |-> die, err |-> FaceValueError]
    ELSE [die |-> [die EXCEPT !.weight =
                      [i \in DOMAIN die.weight |->
                          IF die.face[i] = face THEN new_weight ELSE die.weight[i]]],
          err |-> NoError]

\* numpy.random.choice(face, size, p = weight / weight.sum()) accepts its
\* arguments: size is not negative, p has no NaN (the sum is not zero) and
\* no negative entry (no weight has the opposite sign of the sum)
CanRoll(die, num) ==
    LET total == SumSeq(die.weight)
    IN  /\ num >= 0
        /\ total # 0
        /\ \A i \in DOMAIN die.weight : die.weight[i] * total >= 0

\* the faces numpy.random.choice can draw: those of non-zero probability
Drawable(die) == {die.face[i] : i \in {j \in DOMAIN die.face : die.weight[j] # 0}}

\* every result Die.roll can have: an array of num faces, or the exception
RollResults(die, num) ==
    IF CanRoll(die, num)
    THEN {[err |-> NoError, val |-> s] : s \in [1..num -> Drawable(die)]}
    ELSE {[err |-> ChoiceValueError, val |-> <<>>]}

FaceArgs(lists) ==
    {[type |-> "list", items |-> s] : s \in lists}
        \cup {[type |-> "tuple", items |-> [i \in 1..NumFaces |-> i]]}

DieInit(arg) ==
    /\ Len(dies) < MaxDies
    /\ LET e == DieInitError(arg)
       IN  /\ dies' = IF e = NoError THEN Append(dies, NewDie(arg.items)) ELSE dies
           /\ last' = Call("Die", <<arg>>, e, None)
    /\ UNCHANGED <<game, frames, analyzer, num_rolls>>

change_weight(d, face, new_weight) ==
    /\ d \in DOMAIN dies
    /\ LET r == ChangeWeight(dies[d], face, new_weight)
       IN  /\ dies' = [dies EXCEPT ![d] = r.die]
           /\ last' = Call("change_weight", <<d, face, new_weight>>, r.err, None)
    /\ UNCHANGED <<game, frames, analyzer, num_rolls>>

show_state(d) ==
    /\ d \in DOMAIN dies
    /\ last' = Call("show_state", <<d>>, NoError, dies[d])
    /\ UNCHANGED <<dies, game, frames, analyzer, num_rolls>>

roll(d, num) ==
    /\ d \in DOMAIN dies
    /\ \E r \in RollResults(dies[d], num) :
          last' = Call("roll", <<d, num>>, r.err, r.val)
    /\ UNCHANGED <<dies, game, frames, analyzer, num_rolls>>

---------------------------------------------------------------------------
(* pandas DataFrames of results, held by reference *)

\* pd.DataFrame(outcomes) for outcomes = {0: array, 1: array, ...}: one
\* column per key, labelled by the key; the index is the range over the
\* length of the arrays, and it is empty when there is no column at all
PdDataFrame(outcomes) ==
    [index |-> IF Len(outcomes) = 0 THEN 0 ELSE Len(outcomes[1]),
     columns |-> [c \in DOMAIN outcomes |-> c - 1],
     data |-> outcomes]

\* the identity of a newly created object
NewRef(h) ==
    CHOOSE i \in 1..(Cardinality(DOMAIN h) + 1) :
        i \notin DOMAIN h /\ \A j \in 1..(i - 1) : j \in DOMAIN h

Alloc(h, df) == [heap |-> (NewRef(h) :> df) @@ h, ref |-> NewRef(h)]

\* faulty variant: no copy is made, the same object is handed out
DataFrameAlias(h, ref) == [heap |-> h, ref |-> ref]

\* DataFrame.copy(): a new object with the same content
DataFrameCopy(h, ref) == Alloc(h, h[ref])

\* the objects the Game and the Analyzer refer to, the Game's first
Referenced(g, a) ==
    Distinct((IF g = None THEN <<>> ELSE g[1]._results)
                \o [i \in DOMAIN a |-> a[i].results])

\* The heap once a call has returned: an object no attribute refers to any
\* more is freed, and the references are numbered in the order of Referenced
\* (the identity of an object is arbitrary, only sharing is observable).
Collect(h, g, a) ==
    LET live == Referenced(g, a)
        Renamed(ref) == CHOOSE i \in DOMAIN live : live[i] = ref
    IN  [frames |-> [i \in DOMAIN live |-> h[live[i]]],
         game |-> [i \in DOMAIN g |->
                      [g[i] EXCEPT !._results =
                          [j \in DOMAIN g[i]._results |-> Renamed(g[i]._results[j])]]],
         analyzer |-> [i \in DOMAIN a |-> [results |-> Renamed(a[i].results)]]]

Row(df, r) == [c \in DOMAIN df.data |-> df.data[c][r]]

\* DataFrame.melt(var_name='die_number', value_name='face_rolled',
\*                ignore_index=False): column after column, row after row
RECURSIVE Melt(_, _)
Melt(df, c) ==
    IF c > Len(df.columns) THEN <<>>
    ELSE [r \in 1..df.index |->
             [roll_number |-> r - 1, die_number |-> df.columns[c],
              face_rolled |-> df.data[c][r]]] \o Melt(df, c + 1)

---------------------------------------------------------------------------
(* class Game *)

\* Game.__init__: the checks on the argument
GameInitError(arg) ==
    IF arg.type # "list" THEN DiceTypeError
    ELSE IF \E i \in DOMAIN arg.items : arg.items[i] \notin DOMAIN dies
         THEN ElementTypeError
         ELSE NoError

IsError(r) == r.err # NoError

\* position of the first roll that raises, 0 if none does
FirstError(rolls) ==
    IF \E i \in DOMAIN rolls : IsError(rolls[i])
    THEN CHOOSE i \in DOMAIN rolls :
             IsError(rolls[i]) /\ \A j \in 1..(i - 1) : ~IsError(rolls[j])
    ELSE 0

Values(rolls) == [i \in DOMAIN rolls |-> rolls[i].val]

\* faulty variant: the new rolls are appended to the rows already stored
PlayAppend(g, h, rolls) ==
    LET bad == FirstError(rolls)
        new == PdDataFrame(Values(rolls))
        old == h[g._results[1]]
        all == IF g._results # None /\ Len(old.columns) = Len(new.columns)
               THEN [new EXCEPT !.index = old.index + new.index,
                                !.data = [c \in DOMAIN new.data |->
                                             old.data[c] \o new.data[c]]]
               ELSE new
        a == Alloc(h, all)
    IN  IF bad # 0
        THEN [game |-> g, heap |-> h, err |-> rolls[bad].err]
        ELSE [game |-> [g EXCEPT !._results = Some(a.ref)], heap |-> a.heap,
              err |-> NoError]

\* faulty variant: the columns rolled before the exception are stored
PlayKeepPartial(g, h, rolls) ==
    LET bad == FirstError(rolls)
        done == IF bad = 0 THEN rolls ELSE SubSeq(rolls, 1, bad - 1)
        a == Alloc(h, PdDataFrame(Values(done)))
    IN  [game |-> [g EXCEPT !._results = Some(a.ref)], heap |-> a.heap,
         err |-> IF bad = 0 THEN NoError ELSE rolls[bad].err]

\* faulty variant: the stored results are dropped before the dice are rolled
PlayClearFirst(g, h, rolls) ==
    LET bad == FirstError(rolls)
        a == Alloc(h, PdDataFrame(Values(rolls)))
    IN  IF bad # 0
        THEN [game |-> [g EXCEPT !._results = None], heap |-> h,
              err |-> rolls[bad].err]
        ELSE [game |-> [g EXCEPT !._results = Some(a.ref)], heap |-> a.heap,
              err |-> NoError]

\* Game.play, given what the roll of each die gives (rolls[i] for dice[i]):
\* the first exception of a roll leaves the method before the assignment
\* (the dice after it are not rolled, their entries in rolls are not used)
Play(g, h, rolls) ==
    LET bad == FirstError(rolls)
        a == Alloc(h, PdDataFrame(Values(rolls)))
    IN  IF bad # 0
        THEN [game |-> g, heap |-> h, err |-> rolls[bad].err]
        ELSE [game |-> [g EXCEPT !._results = Some(a.ref)], heap |-> a.heap,
              err |-> NoError]

\* Game.show_results: the exception raised, if any
ShowResultsError(g, form) ==
    IF g._results = None THEN NoResultsError
    ELSE IF form \in {"wide", "narrow"} THEN NoError
    ELSE FormValueError

\* Game.show_results: ref is the table handed out (wide), ret its value
ShowResults(g, h, form) ==
    LET e == ShowResultsError(g, form)
        c == DataFrameCopy(h, g._results[1])
    IN  IF e # NoError THEN [err |-> e, heap |-> h, ref |-> None, ret |-> None]
        ELSE IF form = "wide"
             THEN [err |-> e, heap |-> c.heap, ref |-> Some(c.ref),
                   ret |-> c.heap[c.ref]]
             ELSE [err |-> e, heap |-> h, ref |-> None,
                   ret |-> Melt(h[g._results[1]], 1)]

DiceArgs ==
    {[type |-> "list", items |-> s] : s \in SeqsUpTo(0..MaxDies, 0, MaxGameDice)}
        \cup {[type |-> "tuple", items |-> <<>>]}

Forms == {"wide", "narrow", "long"}

GameInit(arg) ==
    /\ game = None
    /\ LET e == GameInitError(arg)
       IN  /\ game' = IF e = NoError
                      THEN Some([dice |-> arg.items, _results |-> None])
                      ELSE game
           /\ last' = Call("Game", <<arg>>, e, None)
    /\ UNCHANGED <<dies, frames, analyzer, num_rolls>>

play(num) ==
    /\ game # None
    /\ \E rolls \in [DOMAIN game[1].dice ->
                        UNION {RollResults(dies[d], num) : d \in DOMAIN dies}] :
          /\ \A i \in DOMAIN rolls : rolls[i] \in RollResults(dies[game[1].dice[i]], num)
          /\ LET p == Play(game[1], frames, rolls)
                 c == Collect(p.heap, Some(p.game), analyzer)
             IN  /\ game' = c.game
                 /\ frames' = c.frames
                 /\ analyzer' = c.analyzer
                 /\ num_rolls' = IF p.err = NoError THEN Some(num) ELSE num_rolls
                 /\ last' = Call("play", <<num>>, p.err, None)
    /\ UNCHANGED dies

show_results(form) ==
    /\ game # None
    /\ LET s == ShowResults(game[1], frames, form)
           c == Collect(s.heap, game, analyzer)
       IN  /\ game' = c.game
           /\ frames' = c.frames
           /\ analyzer' = c.analyzer
           /\ last' = Call("show_results", <<form>>, s.err, s.ret)
    /\ UNCHANGED <<dies, num_rolls>>

\* the caller changes one cell of the table show_results('wide') gave it:
\* t = game.show_results('wide'); t.iloc[r - 1, c - 1] = v
mutate_shown(r, c, v) ==
    /\ game # None
    /\ LET s == ShowResults(game[1], frames, "wide")
           m == Collect([s.heap EXCEPT ![s.ref[1]].data[c][r] = v], game, analyzer)
       IN  /\ s.err = NoError
           /\ c \in DOMAIN s.ret.data
           /\ r \in 1..s.ret.index
           /\ v # s.ret.data[c][r]
           /\ game' = m.game
           /\ frames' = m.frames
           /\ analyzer' = m.analyzer
           /\ last' = Call("mutate_shown", <<>>, NoError, None)
    /\ UNCHANGED <<dies, num_rolls>>

---------------------------------------------------------------------------
(* class Analyzer *)

\* Series.nunique() of a row: the number of distinct values in it
NUnique(values) == Cardinality(Range(values))

\* faulty variant: the distinct values are counted per column (axis=0)
JackpotPerColumn(df) ==
    Cardinality({c \in DOMAIN df.data : NUnique(df.data[c]) = 1})

\* Analyzer.jackpot: results[results.nunique(axis=1) == 1].shape[0]
Jackpot(df) ==
    Cardinality({r \in 1..df.index : NUnique(Row(df, r)) = 1})

\* Series.value_counts() of a row: each value that occurs -> occurrences
ValueCounts(values) ==
    [f \in Range(values) |-> Cardinality({i \in DOMAIN values : values[i] = f})]

\* the elements of a finite set of integers in increasing order
RECURSIVE SortedSeq(_)
SortedSeq(S) ==
    IF S = {} THEN <<>>
    ELSE LET m == CHOOSE x \in S : \A y \in S : x <= y
         IN  <<m>> \o SortedSeq(S \ {m})

\* a missing cell, and DataFrame.fillna on one cell
NaN == None

FillNa(cell, value) == IF cell = NaN THEN value ELSE cell[1]

\* Analyzer.face_counts_per_roll:
\*   results.apply(lambda row: row.value_counts(), axis=1).fillna(0).astype(int)
\* DataFrame.apply(f, axis=1) builds a frame from the Series f gives for the
\* rows: its columns are the union of their labels, a label a row lacks is
\* NaN.  When the frame has no row or no column f is not applied to any row
\* and, f giving a Series, apply returns a copy of the frame itself.
FaceCountsPerRoll(df) ==
    IF df.index = 0 \/ Len(df.columns) = 0 THEN df
    ELSE LET counts == [r \in 1..df.index |-> ValueCounts(Row(df, r))]
             labels == SortedSeq(UNION {DOMAIN counts[r] : r \in 1..df.index})
             applied == [c \in DOMAIN labels |->
                            [r \in 1..df.index |->
                                IF labels[c] \in DOMAIN counts[r]
                                THEN Some(counts[r][labels[c]]) ELSE NaN]]
         IN  [index |-> df.index, columns |-> labels,
              data |-> [c \in DOMAIN labels |->
                           [r \in 1..df.index |-> FillNa(applied[c][r], 0)]]]

\* sorted(row): insertion of each element into the sorted prefix
RECURSIVE Insert(_, _)
Insert(x, s) ==
    IF s = <<>> THEN <<x>>
    ELSE IF x < Head(s) THEN <<x>> \o s
    ELSE <<Head(s)>> \o Insert(x, Tail(s))

RECURSIVE Sorted(_)
Sorted(s) == IF s = <<>> THEN <<>> ELSE Insert(Head(s), Sorted(Tail(s)))

\* rows of a value_counts put in decreasing order of their count
RECURSIVE InsertByCount(_, _)
InsertByCount(x, s) ==
    IF s = <<>> THEN <<x>>
    ELSE IF x.count > Head(s).count THEN <<x>> \o s
    ELSE <<Head(s)>> \o InsertByCount(x, Tail(s))

RECURSIVE ByCount(_)
ByCount(s) ==
    IF s = <<>> THEN <<>>
    ELSE InsertByCount(s[Len(s)], ByCount(SubSeq(s, 1, Len(s) - 1)))

\* Series.value_counts().reset_index(name='count').rename(
\*     columns={'index': 'combination'}) of a Series of tuples
CountTable(tuples) ==
    LET keys == Distinct(tuples)
    IN  ByCount([k \in DOMAIN keys |->
                    [combination |-> keys[k],
                     count |-> Cardinality({r \in DOMAIN tuples : tuples[r] = keys[k]})]])

\* faulty variant: the faces of a roll are not sorted
ComboUnsorted(df) ==
    CountTable([r \in 1..df.index |-> Row(df, r)])

\* Analyzer.combo: results.apply(lambda row: tuple(sorted(row)), axis=1)
\* and the table of the counts of its values
Combo(df) ==
    CountTable([r \in 1..df.index |-> Sorted(Row(df, r))])

\* Analyzer.__init__: the check on the argument
AnalyzerInitError(arg) ==
    IF arg # "Game" THEN GameTypeError ELSE NoError

AnalyzerInit(arg) ==
    /\ game # None
    /\ LET e == AnalyzerInitError(arg)
           s == ShowResults(game[1], frames, "wide")
           c == Collect(s.heap, game,
                        IF s.err = NoError THEN Some([results |-> s.ref[1]])
                        ELSE analyzer)
       IN  IF e # NoError
           THEN /\ last' = Call("Analyzer", <<arg>>, e, None)
                /\ UNCHANGED <<game, frames, analyzer>>
           ELSE /\ game' = c.game
                /\ frames' = c.frames
                /\ analyzer' = c.analyzer
                /\ last' = Call("Analyzer", <<arg>>, s.err, None)
    /\ UNCHANGED <<dies, num_rolls>>

Results == frames[analyzer[1].results]

jackpot ==
    /\ analyzer # None
    /\ last' = Call("jackpot", <<>>, NoError, Jackpot(Results))
    /\ UNCHANGED <<dies, game, frames, analyzer, num_rolls>>

face_counts_per_roll ==
    /\ analyzer # None
    /\ last' = Call("face_counts_per_roll", <<>>, NoError, FaceCountsPerRoll(Results))
    /\ UNCHANGED <<dies, game, frames, analyzer, num_rolls>>

combo ==
    /\ analyzer # None
    /\ last' = Call("combo", <<>>, NoError, Combo(Results))
    /\ UNCHANGED <<dies, game, frames, analyzer, num_rolls>>

---------------------------------------------------------------------------
(* State after the module is imported: no object exists *)

Init ==
    /\ dies = <<>>
    /\ game = None
    /\ frames = <<>>
    /\ analyzer = None
    /\ num_rolls = None
    /\ last = Call("import", <<>>, NoError, None)

---------------------------------------------------------------------------
(* A session on Die objects alone *)

DieFaceLists == SeqsUpTo(Faces, 1, MaxFaces)

NextDie ==
    \/ \E arg \in FaceArgs(DieFaceLists) : DieInit(arg)
    \/ \E d \in 1..MaxDies, f \in Faces \cup {AbsentFace}, w \in Weights :
          change_weight(d, f, w)
    \/ \E d \in 1..MaxDies : show_state(d)
    \/ \E d \in 1..MaxDies, n \in RollCounts : roll(d, n)

SpecDie == Init /\ [][NextDie]_vars

---------------------------------------------------------------------------
(* A session on a Game: dice with every face once, their weights, plays *)

GameFaceLists == {[i \in 1..NumFaces |-> i]}

NextGame ==
    \/ \E arg \in FaceArgs(GameFaceLists) : DieInit(arg)
    \/ \E d \in 1..MaxDies, f \in Faces \cup {AbsentFace}, w \in Weights :
          change_weight(d, f, w)
    \/ \E arg \in DiceArgs : GameInit(arg)
    \/ \E n \in RollCounts : play(n)
    \/ \E form \in Forms : show_results(form)

SpecGame == Init /\ [][NextGame]_vars

---------------------------------------------------------------------------
(* A session on an Analyzer: dice of default weights, a Game, its plays, *)
(* the tables it shows and the analyses of its results                   *)

NextAnalyzer ==
    \/ \E arg \in FaceArgs(GameFaceLists) : DieInit(arg)
    \/ \E arg \in DiceArgs : GameInit(arg)
    \/ \E n \in RollCounts : play(n)
    \/ \E form \in Forms : show_results(form)
    \/ \E r \in 1..MaxRolls, c \in 1..MaxGameDice, v \in Faces : mutate_shown(r, c, v)
    \/ \E arg \in {"Game", "Die"} : AnalyzerInit(arg)
    \/ jackpot
    \/ face_counts_per_roll
    \/ combo

SpecAnalyzer == Init /\ [][NextAnalyzer]_vars

---------------------------------------------------------------------------
(* Properties *)

GameResults == frames[game[1]._results[1]]

HasResults == game # None /\ game[1]._results # None

Returned(op) == last.op = op /\ last.err = NoError

\* C1 as stated: the stored table has as many rows as the most recent play
\* asked for and one column per die of the Game, for any list of dice
C1_RowsAsRequested ==
    HasResults =>
        /\ num_rolls # None
        /\ GameResults.index = num_rolls[1]
        /\ Len(GameResults.columns) = Len(game[1].dice)

\* C1 amended: the stored table has one column per die, labelled by the
\* position of the die; with at least one die it has exactly the rows
\* 0..n-1 of the most recent play that returned, whatever was stored before;
\* with no die it has no row
C1_PlayShape ==
    HasResults =>
        LET df == GameResults
            k == Len(game[1].dice)
        IN  /\ num_rolls # None
            /\ df.columns = [c \in 1..k |-> c - 1]
            /\ DOMAIN df.data = 1..k
            /\ k >= 1 => df.index = num_rolls[1]
            /\ k = 0 => df.index = 0
            /\ \A c \in 1..k : Len(df.data[c]) = df.index

C1_Witness ==
    /\ Returned("play")
    /\ Len(game[1].dice) = 2
    /\ num_rolls = Some(1)
    /\ GameResults.index = 1

\* C2: a change_weight(f, w) that returns, w >= 0, leaves the die with
\* weight w on f and with the weight it had on every other face
C2_ChangeWeightFrame ==
    [][(last'.op = "change_weight" /\ last'.err = NoError /\ last'.args[3] >= 0) =>
          LET d == last'.args[1]
              f == last'.args[2]
              w == last'.args[3]
          IN  /\ f \in Range(dies[d].face)
              /\ dies'[d].face = dies[d].face
              /\ \A i \in DOMAIN dies[d].face :
                    /\ dies[d].face[i] = f => dies'[d].weight[i] = w
                    /\ dies[d].face[i] # f => dies'[d].weight[i] = dies[d].weight[i]
              /\ \A e \in DOMAIN dies : e # d => dies'[e] = dies[e]]_vars

C2_Witness ==
    /\ Returned("change_weight")
    /\ last.args[3] = 0
    /\ LET die == dies[last.args[1]]
       IN  \E i, j \in DOMAIN die.face :
              /\ die.face[i] = last.args[2] /\ die.weight[i] = 0
              /\ die.face[j] # last.args[2] /\ die.weight[j] = DefaultWeight

\* C3: change_weight with a negative weight fails, so that no face of any
\* die ever has a negative weight
C3_WeightsNonNegative ==
    /\ (last.op = "change_weight" /\ last.args[3] < 0) => last.err # NoError
    /\ \A d \in DOMAIN dies : \A i \in DOMAIN dies[d].weight : dies[d].weight[i] >= 0

\* C4: Die(faces) fails when two faces are equal, so that the faces of
\* every die are pairwise distinct
C4_FacesDistinct ==
    /\ (last.op = "Die" /\ \E i, j \in DOMAIN last.args[1].items :
            i # j /\ last.args[1].items[i] = last.args[1].items[j])
          => last.err # NoError
    /\ \A d \in DOMAIN dies : \A i, j \in DOMAIN dies[d].face :
          i # j => dies[d].face[i] # dies[d].face[j]

\* C5: while no play has returned, show_results('wide' or 'narrow') and
\* Analyzer(game) fail with the no-results error; once a play has returned,
\* show_results('wide' or 'narrow') returns
C5_NoResultsError ==
    /\ (last.op = "show_results" /\ last.args[1] \in {"wide", "narrow"}) =>
          IF num_rolls = None THEN last.err = NoResultsError ELSE last.err = NoError
    /\ (last.op = "Analyzer" /\ last.args[1] = "Game" /\ num_rolls = None) =>
          last.err = NoResultsError

C5_Witness ==
    /\ Returned("show_results")
    /\ last.args[1] = "narrow"
    /\ num_rolls # None
    /\ Len(last.ret) = MaxRolls * MaxGameDice

\* C6: a play, a show_results or a change by the caller to the table that
\* show_results('wide') returned leaves the Analyzer and the table it holds
\* as they were, and with it what jackpot, face_counts_per_roll and combo give
C6_Snapshot ==
    [][(analyzer # None /\ last'.op \in {"play", "show_results", "mutate_shown"}) =>
          /\ analyzer' # None
          /\ frames'[analyzer'[1].results] = frames[analyzer[1].results]
          /\ Jackpot(frames'[analyzer'[1].results]) = Jackpot(Results)
          /\ FaceCountsPerRoll(frames'[analyzer'[1].results]) = FaceCountsPerRoll(Results)
          /\ Combo(frames'[analyzer'[1].results]) = Combo(Results)]_vars

C6_Witness ==
    /\ analyzer # None
    /\ Returned("play")
    /\ Results.index = MaxRolls
    /\ GameResults.index = 1

\* C7: jackpot returns the number of rolls in which all dice show the same
\* face; it lies between 0 and the number of rolls and is the number of
\* rolls when there is one die
C7_Jackpot ==
    last.op = "jackpot" =>
        LET df == Results
            k == Len(df.columns)
        IN  /\ last.ret = Cardinality({r \in 1..df.index :
                              \A c1, c2 \in 1..k : df.data[c1][r] = df.data[c2][r]})
            /\ last.ret \in 0..df.index
            /\ k = 1 => last.ret = df.index

C7_Witness ==
    /\ last.op = "jackpot"
    /\ Len(Results.columns) = 2
    /\ Results.index = 2
    /\ last.ret = 1

Occurrences(df, r, f) == Cardinality({c \in DOMAIN df.data : df.data[c][r] = f})

\* C8: face_counts_per_roll returns one row per roll and one column per
\* face that occurs in the results; a cell is the number of dice showing the
\* face in the roll, and a row sums to the number of dice
C8_FaceCounts ==
    last.op = "face_counts_per_roll" =>
        LET df == Results
            t == last.ret
            occurring == UNION {Range(df.data[c]) : c \in DOMAIN df.data}
        IN  /\ t.index = df.index
            /\ Range(t.columns) = occurring
            /\ Len(t.columns) = Cardinality(occurring)
            /\ \A r \in 1..t.index :
                  /\ \A c \in DOMAIN t.columns :
                        t.data[c][r] = Occurrences(df, r, t.columns[c])
                  /\ SumSeq([c \in DOMAIN t.columns |-> t.data[c][r]]) = Len(df.columns)

SameFaces(s, t) ==
    /\ Len(s) = Len(t)
    /\ \A f \in Range(s) \cup Range(t) :
          Cardinality({i \in DOMAIN s : s[i] = f}) = Cardinality({i \in DOMAIN t : t[i] = f})

\* C9: combo returns one row per multiset of faces seen in a roll, two rolls
\* are counted in the same row exactly when their faces are equal up to the
\* order of the dice, the count of a row is the number of its rolls and the
\* counts sum to the number of rolls
C9_Combo ==
    last.op = "combo" =>
        LET df == Results
            t == last.ret
            RowsOf(k) == {r \in 1..df.index : SameFaces(Row(df, r), t[k].combination)}
        IN  /\ \A r \in 1..df.index : \E k \in DOMAIN t : r \in RowsOf(k)
            /\ \A k1, k2 \in DOMAIN t :
                  k1 # k2 => ~SameFaces(t[k1].combination, t[k2].combination)
            /\ \A k \in DOMAIN t : t[k].count = Cardinality(RowsOf(k)) /\ t[k].count >= 1
            /\ SumSeq([k \in DOMAIN t |-> t[k].count]) = df.index

C9_Witness ==
    /\ last.op = "combo"
    /\ Results.index = 2
    /\ Len(Results.columns) = 2
    /\ Row(Results, 1) # Row(Results, 2)
    /\ Len(last.ret) = 1
    /\ last.ret[1].count = 2

\* C10: a change_weight, play or show_results that raises leaves the dice,
\* the Game and its stored results as they were
C10_FailureChangesNothing ==
    [][(last'.op \in {"change_weight", "play", "show_results"} /\ last'.err # NoError) =>
          /\ dies' = dies
          /\ game' = game
          /\ frames' = frames
          /\ analyzer' = analyzer
          /\ num_rolls' = num_rolls]_vars

C10_Witness ==
    /\ last.op = "play"
    /\ last.err = ChoiceValueError
    /\ HasResults
    /\ Len(game[1].dice) = 2
    /\ last.args[1] >= 1
    /\ CanRoll(dies[game[1].dice[1]], last.args[1])
    /\ ~CanRoll(dies[game[1].dice[2]], last.args[1])

=============================================================================
